---- MODULE Spec2Model ----
(***************************************************************************)
(* State-machine model of GroqClient (src/utils/research_tools.py): the    *)
(* rate limiter, the retrying transport, the LRU response cache, chat and  *)
(* the chat_stream generator, and of the history file kept by              *)
(* src/utils/logger.py.  Times are in milliseconds.  Strings are TLA+      *)
(* strings; JSON documents are tagged records.                             *)
(***************************************************************************)
EXTENDS Integers, Sequences, FiniteSets, TLC

VARIABLES
  now,          \* time.time()
  _last_call,   \* self._last_call
  _cache,       \* self._cache: sequence of [key, val], oldest first
  pc,           \* "idle" | "post" (inside _post's loop) | "reading" (inside iter_lines)
  op,           \* operation of the current or last call: "" | "chat" | "chat_stream"
  payload,      \* payload of the current or last call
  key,          \* cache key of the current or last chat call
  attempt,      \* _post's local attempt counter
  result,       \* string returned by the last chat call
  raised,       \* an exception escaped chat / chat_stream
  lines,        \* lines of the streamed response not read yet
  accumulated,  \* chat_stream's accumulator
  yielded,      \* elements produced so far by the current or last chat_stream call
  how,          \* how the last call ended: "" | "hit" | "ok" | "error" | "end" | "done"
  posts,        \* observation: session.post invocations of the current call
  sleeps,       \* observation: backoff sleeps of the current call
  fails,        \* observation: failed attempts of the current call that the spec calls transient
  last,         \* observation: outcome of the latest session.post
  consumed,     \* observation: lines read so far by the current chat_stream call
  log,          \* observation: one summary per completed call
  ncalls,       \* observation: calls started
  logfile,      \* logs/history.json: [kind, data], kind "missing" | "text" | "json"
  handlers,     \* per UI handler: position inside log_interaction and its local history
  returned,     \* list returned by the last get_history call
  lastop,       \* last logger function entered: "" | "log_interaction" | "get_history" | "clear_history"
  since         \* observation: [cleared, calls]: log_interaction calls completed since the last clear_history

clientVars == <<now, _last_call, _cache, pc, op, payload, key, attempt, result, raised,
                lines, accumulated, yielded, how, posts, sleeps, fails, last, consumed,
                log, ncalls>>
loggerVars == <<logfile, handlers, returned, lastop, since>>
vars == <<clientVars, loggerVars>>

(***************************************************************************)
(* Bounds of the explored behaviours                                       *)
(***************************************************************************)
MaxCalls == 2
MaxStreamCalls == 1
MaxLines == 3
MaxHits == 1

(***************************************************************************)
(* GroqClient.__init__                                                     *)
(***************************************************************************)
max_retries == 3
_min_interval == 200
_cache_limit == 64
\* self.backoff ** attempt with backoff = 1.5, in milliseconds
backoff(a) == (1000 * 3^a) \div 2^a
\* time.time() when the client is constructed (any value >= _min_interval)
StartTime == 1000

(***************************************************************************)
(* Python values: JSON documents and exceptions                            *)
(***************************************************************************)
JNull == [ty |-> "null"]
JStr(s) == [ty |-> "str", s |-> s]
JArr(a) == [ty |-> "arr", a |-> a]
JObj(o) == [ty |-> "obj", o |-> o]
\* an exception object; status_code 0 and reason "" stand for "no response attached"
Exc(type, msg, status_code, reason, text) ==
  [ty |-> "raise", type |-> type, msg |-> msg, status_code |-> status_code,
   reason |-> reason, text |-> text]
PyExc(type, msg) == Exc(type, msg, 0, "", "")
IsRaise(v) == v.ty = "raise"

\* v[k] for a string key k
GetItem(v, k) ==
  IF IsRaise(v) THEN v
  ELSE IF v.ty = "obj"
    THEN IF k \in DOMAIN v.o THEN v.o[k] ELSE PyExc("KeyError", "'" \o k \o "'")
  ELSE IF v.ty = "arr" THEN PyExc("TypeError", "list indices must be integers or slices, not str")
  ELSE IF v.ty = "str" THEN PyExc("TypeError", "string indices must be integers")
  ELSE PyExc("TypeError", "'NoneType' object is not subscriptable")

\* v[0]
GetFirst(v) ==
  IF IsRaise(v) THEN v
  ELSE IF v.ty = "arr"
    THEN IF Len(v.a) > 0 THEN v.a[1] ELSE PyExc("IndexError", "list index out of range")
  ELSE IF v.ty = "obj" THEN PyExc("KeyError", "0")
  ELSE IF v.ty = "str"
    THEN IF Len(v.s) > 0 THEN JStr(SubSeq(v.s, 1, 1))
         ELSE PyExc("IndexError", "string index out of range")
  ELSE PyExc("TypeError", "'NoneType' object is not subscriptable")

\* v.get(k, default)
DictGet(v, k, default) ==
  IF IsRaise(v) THEN v
  ELSE IF v.ty = "obj" THEN (IF k \in DOMAIN v.o THEN v.o[k] ELSE default)
  ELSE PyExc("AttributeError", "object has no attribute 'get'")

IsSpace(c) == c \in {" ", "\n", "\t", "\r"}
RECURSIVE lstrip(_)
lstrip(s) ==
  IF Len(s) > 0 /\ IsSpace(SubSeq(s, 1, 1)) THEN lstrip(SubSeq(s, 2, Len(s))) ELSE s
RECURSIVE rstrip(_)
rstrip(s) ==
  IF Len(s) > 0 /\ IsSpace(SubSeq(s, Len(s), Len(s))) THEN rstrip(SubSeq(s, 1, Len(s) - 1)) ELSE s
\* str.strip()
strip(s) == rstrip(lstrip(s))

\* v.strip()
StripOf(v) ==
  IF IsRaise(v) THEN v
  ELSE IF v.ty = "str" THEN JStr(strip(v.s))
  ELSE PyExc("AttributeError", "object has no attribute 'strip'")

\* str.startswith
startswith(s, p) == Len(s) >= Len(p) /\ SubSeq(s, 1, Len(p)) = p

(***************************************************************************)
(* Documents the remote end can send                                       *)
(***************************************************************************)
BodyHello == "{\"choices\":[{\"message\":{\"content\":\" Hello world \"}}]}"
BodyBye == "{\"choices\":[{\"message\":{\"content\":\"Bye\"}}]}"
BodyNoChoices == "{}"
BodyEmptyChoices == "{\"choices\":[]}"
BodyNullContent == "{\"choices\":[{\"message\":{\"content\":null}}]}"
BodyHtml == "<html>Bad Gateway</html>"
BodyError == "{\"error\":{\"message\":\"bad request\"}}"

ChunkHel == "{\"choices\":[{\"delta\":{\"content\":\"Hel\"}}]}"
ChunkLo == "{\"choices\":[{\"delta\":{\"content\":\"lo\"}}]}"
ChunkRole == "{\"choices\":[{\"delta\":{\"role\":\"assistant\"}}]}"
ChunkEmptyContent == "{\"choices\":[{\"delta\":{\"content\":\"\"}}]}"
ChunkTruncated == "{\"choices\":[{\"del"

Message(c) == JObj([choices |-> JArr(<<JObj([message |-> JObj([content |-> c])])>>)])
Delta(d) == JObj([choices |-> JArr(<<JObj([delta |-> JObj(d)])>>)])

\* json.loads / Response.json() on the documents above; anything else is not JSON
json_loads(s) ==
  CASE s = BodyHello -> Message(JStr(" Hello world "))
    [] s = BodyBye -> Message(JStr("Bye"))
    [] s = BodyNoChoices -> JObj(<<>>)
    [] s = BodyEmptyChoices -> JObj([choices |-> JArr(<<>>)])
    [] s = BodyNullContent -> Message(JNull)
    [] s = BodyError -> JObj([error |-> JObj([message |-> JStr("bad request")])])
    [] s = ChunkHel -> Delta([content |-> JStr("Hel")])
    [] s = ChunkLo -> Delta([content |-> JStr("lo")])
    [] s = ChunkRole -> Delta([role |-> JStr("assistant")])
    [] s = ChunkEmptyContent -> Delta([content |-> JStr("")])
    [] OTHER -> PyExc("JSONDecodeError", "Expecting value: line 1 column 1 (char 0)")

\* http.client.responses
reason(status_code) ==
  CASE status_code = 200 -> "OK"
    [] status_code = 400 -> "Bad Request"
    [] status_code = 401 -> "Unauthorized"
    [] status_code = 404 -> "Not Found"
    [] status_code = 429 -> "Too Many Requests"
    [] status_code = 500 -> "Internal Server Error"
    [] status_code = 502 -> "Bad Gateway"
    [] status_code = 503 -> "Service Unavailable"
    [] status_code = 504 -> "Gateway Timeout"
    [] OTHER -> ""

(***************************************************************************)
(* Outcomes of one session.post                                            *)
(***************************************************************************)
\* exc = "" means a response came back; otherwise session.post raised exc
Outcome(exc, status_code, text) == [exc |-> exc, status_code |-> status_code, text |-> text]
Raises(exc) == Outcome(exc, 0, "")

ExcMsg(exc) ==
  CASE exc = "Timeout" -> "Read timed out."
    [] exc = "ConnectionError" -> "Connection refused"
    [] OTHER -> "Exceeded 30 redirects."

\* str(err) for the err of lines 68-71
ErrRepr(text) ==
  IF IsRaise(json_loads(text)) THEN "{'error': {'message': '" \o text \o "'}}"
  ELSE IF text = BodyError THEN "{'error': {'message': 'bad request'}}"
  ELSE text

\* variant: an error status raises HTTPError for streamed responses as well
session_post_raises_for_stream(o, stream) ==
  IF o.exc # "" THEN PyExc(o.exc, ExcMsg(o.exc))
  ELSE IF o.status_code >= 400
    THEN Exc("HTTPError",
             ToString(o.status_code) \o " " \o reason(o.status_code) \o ": " \o ErrRepr(o.text),
             o.status_code, reason(o.status_code), o.text)
  ELSE [ty |-> "resp", status_code |-> o.status_code, text |-> o.text]
\* the try block of _post (lines 60-75): the response it returns or the exception it raises
session_post(o, stream) ==
  IF o.exc # "" THEN PyExc(o.exc, ExcMsg(o.exc))
  ELSE IF o.status_code >= 400 /\ ~stream
    THEN Exc("HTTPError",
             ToString(o.status_code) \o " " \o reason(o.status_code) \o ": " \o ErrRepr(o.text),
             o.status_code, reason(o.status_code), o.text)
  ELSE [ty |-> "resp", status_code |-> o.status_code, text |-> o.text]

\* except (requests.Timeout, requests.ConnectionError, requests.HTTPError) (line 76)
Caught(e) == e.type \in {"Timeout", "ConnectionError", "HTTPError"}

\* variant: 503 is missing from the retryable statuses
transient_without_503(e) ==
  \/ e.status_code \in {429, 500, 502, 504}
  \/ e.type \in {"Timeout", "ConnectionError"}
\* variant: every HTTP error status is retried
transient_any_status(e) ==
  \/ e.status_code >= 400
  \/ e.type \in {"Timeout", "ConnectionError"}
\* lines 79-82
transient(e) ==
  \/ e.status_code \in {429, 500, 502, 503, 504}
  \/ e.type \in {"Timeout", "ConnectionError"}

\* variant: one retry fewer
ShouldRetryOffByOne(e, a) == a < max_retries /\ transient(e)
\* line 83: retry (sleep and continue) or re-raise, for the attempt number after the increment
ShouldRetry(e, a) == a <= max_retries /\ transient(e)

\* _sleep_for_rate_limit (lines 48-53): the time at which it returns
RateLimitWake(t, lc) == IF t - lc < _min_interval THEN t + (_min_interval - (t - lc)) ELSE t

(***************************************************************************)
(* _format_error (lines 186-205)                                           *)
(***************************************************************************)
Hint(status) ==
  IF status = 400
    THEN " Check the model name and ensure max_tokens > 0. Also verify the messages payload."
  ELSE IF status = 401 THEN " Check your GROQ_API_KEY."
  ELSE IF status \in {429, 500, 502, 503, 504}
    THEN " This may be transient; it was retried automatically."
  ELSE ""

\* line 191-193: the response is truthy only when its status is below 400
ErrBody(e) ==
  IF e.status_code # 0 /\ e.status_code < 400
    THEN IF IsRaise(json_loads(e.text)) THEN e.text ELSE ErrRepr(e.text)
  ELSE ""

_format_error(e) ==
  "Error communicating with Groq API: "
    \o (IF e.status_code # 0 THEN ToString(e.status_code) ELSE "")
    \o " " \o e.reason \o " " \o e.msg \o "\n" \o ErrBody(e) \o Hint(e.status_code)

(***************************************************************************)
(* Request normalisation and the cache (lines 98-131)                      *)
(***************************************************************************)
Max(a, b) == IF a >= b THEN a ELSE b

\* the thousandths n/1000 in 0..2 that lie half way between two hundredths as
\* decimals and that round(float(n/1000), 2) rounds up: the double nearest to
\* n/1000 is above the half-way point, or it is exact and the upper hundredth
\* is the even one
TieRoundsUp ==
  {5, 25, 35, 55, 65, 85, 95, 115, 135, 165, 195, 225, 255, 265, 275, 315, 325,
   335, 375, 385, 395, 405, 445, 455, 465, 505, 515, 525, 535, 545, 555, 635,
   645, 655, 665, 675, 685, 755, 765, 775, 785, 795, 805, 875, 885, 895, 905,
   915, 925, 935, 1135, 1145, 1155, 1165, 1175, 1185, 1195, 1205, 1215, 1225,
   1235, 1245, 1375, 1385, 1395, 1405, 1415, 1425, 1435, 1445, 1455, 1465, 1475,
   1485, 1495, 1635, 1645, 1655, 1665, 1675, 1685, 1695, 1705, 1715, 1725, 1735,
   1745, 1875, 1885, 1895, 1905, 1915, 1925, 1935, 1945, 1955, 1965, 1975, 1985,
   1995}

\* round(float(x), 2) on a value x in 0..2000 given in thousandths
round2(x) ==
  LET q == x \div 10
      r == x % 10
  IN IF r > 5 \/ (r = 5 /\ x \in TieRoundsUp) THEN 10 * (q + 1) ELSE 10 * q

\* variant: the system message is appended after the user message
messages_system_last(a) ==
  <<[role |-> "user", content |-> a.prompt]>>
    \o (IF a.system # "" THEN <<[role |-> "system", content |-> a.system]>> ELSE <<>>)
\* system = "" stands for None as well: both are falsy at lines 99 and 113
messages(a) ==
  (IF a.system # "" THEN <<[role |-> "system", content |-> a.system]>> ELSE <<>>)
    \o <<[role |-> "user", content |-> a.prompt]>>

ChatPayload(a) ==
  [model |-> a.model, messages |-> messages(a), temperature |-> a.temperature,
   max_tokens |-> Max(1, a.max_tokens), top_p |-> a.top_p]

StreamPayload(a) ==
  [model |-> a.model, messages |-> messages(a), temperature |-> a.temperature,
   max_tokens |-> Max(1, a.max_tokens), top_p |-> a.top_p, stream |-> TRUE]

\* variant: the key carries temperature and top_p as given
CacheKeyUnrounded(a) ==
  [model |-> a.model, system |-> a.system, prompt |-> a.prompt,
   temperature |-> a.temperature, max_tokens |-> a.max_tokens,
   top_p |-> a.top_p]
\* the dict serialised by json.dumps(..., sort_keys=True) at lines 111-118
CacheKey(a) ==
  [model |-> a.model, system |-> a.system, prompt |-> a.prompt,
   temperature |-> round2(a.temperature), max_tokens |-> a.max_tokens,
   top_p |-> round2(a.top_p)]

NoKey == [model |-> ""]
NoPayload == [model |-> ""]

CacheKeys(c) == {c[i].key : i \in 1..Len(c)}
\* self._cache[key]
CacheGet(c, k) == c[CHOOSE i \in 1..Len(c) : c[i].key = k].val
\* variant: move_to_end(key, last=False)
move_to_front(c, k) ==
  SelectSeq(c, LAMBDA e : e.key = k) \o SelectSeq(c, LAMBDA e : e.key # k)
\* variant: a hit does not promote the entry
move_to_end_omitted(c, k) == c
\* OrderedDict.move_to_end(key)
move_to_end(c, k) ==
  SelectSeq(c, LAMBDA e : e.key # k) \o SelectSeq(c, LAMBDA e : e.key = k)
\* OrderedDict.__setitem__: a new key goes last, an existing key keeps its place
SetItem(c, k, v) ==
  IF k \in CacheKeys(c)
    THEN [i \in 1..Len(c) |-> IF c[i].key = k THEN [key |-> k, val |-> v] ELSE c[i]]
  ELSE Append(c, [key |-> k, val |-> v])
\* variant: the response is not stored
StoreDropped(c, k, v) == c
\* variant: popitem() without last=False removes the newest entry
StoreEvictsNewest(c, k, v) ==
  LET c1 == SetItem(c, k, v)
  IN IF Len(c1) > _cache_limit THEN SubSeq(c1, 1, Len(c1) - 1) ELSE c1
\* lines 129-131
Store(c, k, v) ==
  LET c1 == SetItem(c, k, v)
  IN IF Len(c1) > _cache_limit THEN Tail(c1) ELSE c1

\* lines 126-127: out, or the exception raised on the way
ChatOut(resp) ==
  StripOf(GetItem(GetItem(GetFirst(GetItem(json_loads(resp.text), "choices")),
                          "message"), "content"))

\* variant: chat catches only the exceptions that _post handles
ChatCatchesTransportOnly(e) == Caught(e)
\* "except Exception" (line 133) catches every exception the block can raise
ChatCatches(e) == TRUE

\* variant: chat_stream catches only the exceptions that _post handles
StreamCatchesTransportOnly(e) == Caught(e)
\* "except Exception" at line 183
StreamCatches(e) == TRUE

\* one iteration of _post's while loop (lines 58-86), entered with attempt = att
PostStep(o, stream, att) ==
  LET r == session_post(o, stream)
  IN IF ~IsRaise(r) THEN [tag |-> "return", v |-> r, attempt |-> att]
     ELSE IF ~Caught(r) THEN [tag |-> "raise", v |-> r, attempt |-> att]
     ELSE IF ShouldRetry(r, att + 1) THEN [tag |-> "retry", v |-> r, attempt |-> att + 1]
     ELSE [tag |-> "raise", v |-> r, attempt |-> att + 1]

\* the spec's classification of an attempt's outcome (section 4.2)
SpecTransient(o) ==
  \/ o.exc \in {"Timeout", "ConnectionError"}
  \/ o.exc = "" /\ o.status_code \in {429, 500, 502, 503, 504}

NoOutcome == Outcome("none", 0, "")
LogEntry(o, k, h, n, t) == [op |-> o, key |-> k, how |-> h, posts |-> n, text |-> t]

(***************************************************************************)
(* State after GroqClient.__init__ (lines 25-46)                           *)
(***************************************************************************)
\* UI handlers that may be inside log_interaction
Handlers == {1, 2}
IdleHandler == [pc |-> "idle", history |-> <<>>, question |-> "", answer |-> ""]
\* no logs/history.json yet
NoFile == [kind |-> "missing", data |-> <<>>]

Init ==
  /\ now = StartTime
  /\ _last_call = 0
  /\ _cache = <<>>
  /\ pc = "idle"
  /\ op = ""
  /\ payload = NoPayload
  /\ key = NoKey
  /\ attempt = 0
  /\ result = ""
  /\ raised = FALSE
  /\ lines = <<>>
  /\ accumulated = ""
  /\ yielded = <<>>
  /\ how = ""
  /\ posts = 0
  /\ sleeps = <<>>
  /\ fails = 0
  /\ last = NoOutcome
  /\ consumed = <<>>
  /\ log = <<>>
  /\ ncalls = 0
  /\ logfile = NoFile
  /\ handlers = [h \in Handlers |-> IdleHandler]
  /\ returned = <<>>
  /\ lastop = ""
  /\ since = [cleared |-> FALSE, calls |-> <<>>]

(***************************************************************************)
(* chat (lines 88-134) up to the cache lookup and the entry into _post     *)
(***************************************************************************)
\* variant: chat does not look the key up and always goes to _post
ChatCallNoLookup(a) ==
  /\ UNCHANGED loggerVars
  /\ pc = "idle"
  /\ op' = "chat"
  /\ payload' = ChatPayload(a)
  /\ key' = CacheKey(a)
  /\ ncalls' = ncalls + 1
  /\ posts' = 0
  /\ sleeps' = <<>>
  /\ fails' = 0
  /\ last' = NoOutcome
  /\ lines' = <<>>
  /\ accumulated' = ""
  /\ yielded' = <<>>
  /\ consumed' = <<>>
  /\ now' = RateLimitWake(now, _last_call)
  /\ _last_call' = now'
  /\ attempt' = 0
  /\ pc' = "post"
  /\ how' = ""
  /\ result' = ""
  /\ UNCHANGED <<raised, _cache, log>>
ChatCall(a) ==
  /\ UNCHANGED loggerVars
  /\ pc = "idle"
  /\ op' = "chat"
  /\ payload' = ChatPayload(a)
  /\ key' = CacheKey(a)
  /\ ncalls' = ncalls + 1
  /\ posts' = 0
  /\ sleeps' = <<>>
  /\ fails' = 0
  /\ last' = NoOutcome
  /\ lines' = <<>>
  /\ accumulated' = ""
  /\ yielded' = <<>>
  /\ consumed' = <<>>
  /\ UNCHANGED raised
  /\ IF CacheKey(a) \in CacheKeys(_cache)
       THEN /\ _cache' = move_to_end(_cache, CacheKey(a))
            /\ result' = CacheGet(_cache, CacheKey(a))
            /\ how' = "hit"
            /\ pc' = "idle"
            /\ log' = Append(log, LogEntry("chat", CacheKey(a), "hit", 0,
                                           CacheGet(_cache, CacheKey(a))))
            /\ UNCHANGED <<now, _last_call, attempt>>
       ELSE /\ now' = RateLimitWake(now, _last_call)
            /\ _last_call' = now'
            /\ attempt' = 0
            /\ pc' = "post"
            /\ how' = ""
            /\ result' = ""
            /\ UNCHANGED <<_cache, log>>

(***************************************************************************)
(* chat_stream (lines 136-184) up to the entry into _post                  *)
(***************************************************************************)
\* variant: chat_stream looks the request up in the cache as chat does and
\* produces the cached text without a POST
StreamCallCached(a) ==
  /\ UNCHANGED loggerVars
  /\ pc = "idle"
  /\ op' = "chat_stream"
  /\ payload' = StreamPayload(a)
  /\ key' = NoKey
  /\ ncalls' = ncalls + 1
  /\ posts' = 0
  /\ sleeps' = <<>>
  /\ fails' = 0
  /\ last' = NoOutcome
  /\ lines' = <<>>
  /\ accumulated' = ""
  /\ consumed' = <<>>
  /\ result' = ""
  /\ UNCHANGED raised
  /\ IF CacheKey(a) \in CacheKeys(_cache)
       THEN /\ _cache' = move_to_end(_cache, CacheKey(a))
            /\ yielded' = <<CacheGet(_cache, CacheKey(a))>>
            /\ how' = "end"
            /\ pc' = "idle"
            /\ log' = Append(log, LogEntry("chat_stream", NoKey, "end", 0, ""))
            /\ UNCHANGED <<now, _last_call, attempt>>
       ELSE /\ now' = RateLimitWake(now, _last_call)
            /\ _last_call' = now'
            /\ attempt' = 0
            /\ pc' = "post"
            /\ how' = ""
            /\ yielded' = <<>>
            /\ UNCHANGED <<_cache, log>>
StreamCall(a) ==
  /\ UNCHANGED loggerVars
  /\ pc = "idle"
  /\ op' = "chat_stream"
  /\ payload' = StreamPayload(a)
  /\ key' = NoKey
  /\ ncalls' = ncalls + 1
  /\ posts' = 0
  /\ sleeps' = <<>>
  /\ fails' = 0
  /\ last' = NoOutcome
  /\ lines' = <<>>
  /\ accumulated' = ""
  /\ yielded' = <<>>
  /\ consumed' = <<>>
  /\ now' = RateLimitWake(now, _last_call)
  /\ _last_call' = now'
  /\ attempt' = 0
  /\ pc' = "post"
  /\ how' = ""
  /\ result' = ""
  /\ UNCHANGED <<_cache, log, raised>>

(***************************************************************************)
(* How a call ends                                                         *)
(***************************************************************************)
\* variant: a body that cannot be parsed sends chat back into _post
ChatEndRetriesParse(v) ==
  IF IsRaise(v) /\ ~Caught(v)
    THEN UNCHANGED <<pc, lines, accumulated, yielded, _cache, result, how, log, raised>>
    ELSE /\ pc' = "idle"
         /\ UNCHANGED <<lines, accumulated, yielded, raised>>
         /\ IF ~IsRaise(v)
              THEN /\ _cache' = Store(_cache, key, v.s)
                   /\ result' = v.s
                   /\ how' = "ok"
                   /\ log' = Append(log, LogEntry("chat", key, "ok", posts + 1, v.s))
              ELSE /\ result' = _format_error(v)
                   /\ how' = "error"
                   /\ log' = Append(log, LogEntry("chat", key, "error", posts + 1, ""))
                   /\ UNCHANGED _cache
\* variant: the formatted error is stored in the cache like an answer
ChatEndCachesError(v) ==
  /\ pc' = "idle"
  /\ UNCHANGED <<lines, accumulated, yielded, raised>>
  /\ IF ~IsRaise(v)
       THEN /\ _cache' = Store(_cache, key, v.s)
            /\ result' = v.s
            /\ how' = "ok"
            /\ log' = Append(log, LogEntry("chat", key, "ok", posts + 1, v.s))
       ELSE /\ _cache' = Store(_cache, key, _format_error(v))
            /\ result' = _format_error(v)
            /\ how' = "error"
            /\ log' = Append(log, LogEntry("chat", key, "error", posts + 1, ""))
\* chat after _post returned or raised: v is out (line 127) or the exception
ChatEnd(v) ==
  /\ pc' = "idle"
  /\ UNCHANGED <<lines, accumulated, yielded>>
  /\ IF ~IsRaise(v)
       THEN /\ _cache' = Store(_cache, key, v.s)
            /\ result' = v.s
            /\ how' = "ok"
            /\ log' = Append(log, LogEntry("chat", key, "ok", posts + 1, v.s))
            /\ UNCHANGED raised
       ELSE IF ChatCatches(v)
         THEN /\ result' = _format_error(v)
              /\ how' = "error"
              /\ log' = Append(log, LogEntry("chat", key, "error", posts + 1, ""))
              /\ UNCHANGED <<_cache, raised>>
       ELSE /\ raised' = TRUE
            /\ how' = "raised"
            /\ log' = Append(log, LogEntry("chat", key, "raised", posts + 1, ""))
            /\ UNCHANGED <<_cache, result>>

\* chat_stream's generator finishes; h tells why
StreamEnd(h) ==
  /\ pc' = "idle"
  /\ how' = h
  /\ log' = Append(log, LogEntry("chat_stream", NoKey, h, posts, ""))

\* chat_stream when an exception e reaches line 183, after n attempts
StreamExcept(e, n) ==
  /\ pc' = "idle"
  /\ IF StreamCatches(e)
       THEN /\ yielded' = Append(yielded, _format_error(e))
            /\ how' = "error"
            /\ log' = Append(log, LogEntry("chat_stream", NoKey, "error", n, ""))
            /\ UNCHANGED raised
       ELSE /\ raised' = TRUE
            /\ how' = "raised"
            /\ log' = Append(log, LogEntry("chat_stream", NoKey, "raised", n, ""))
            /\ UNCHANGED yielded

(***************************************************************************)
(* One session.post inside _post, and what follows from it in the caller   *)
(***************************************************************************)
PostAttempt(o, ls) ==
  /\ UNCHANGED loggerVars
  /\ pc = "post"
  /\ op = "chat" => ls = <<>>
  /\ LET d == PostStep(o, op = "chat_stream", attempt)
     IN /\ posts' = posts + 1
        /\ last' = o
        /\ fails' = IF SpecTransient(o) THEN fails + 1 ELSE fails
        /\ attempt' = d.attempt
        /\ UNCHANGED <<_last_call, op, payload, key, ncalls, consumed>>
        /\ CASE d.tag = "retry" ->
                  /\ now' = now + backoff(d.attempt)
                  /\ sleeps' = Append(sleeps, backoff(d.attempt))
                  /\ UNCHANGED <<_cache, pc, result, raised, lines, accumulated,
                                 yielded, how, log>>
             [] d.tag = "return" /\ op = "chat" ->
                  /\ ChatEnd(ChatOut(d.v))
                  /\ UNCHANGED <<now, sleeps>>
             [] d.tag = "return" /\ op = "chat_stream" ->
                  /\ pc' = "reading"
                  /\ lines' = ls
                  /\ accumulated' = ""
                  /\ UNCHANGED <<now, sleeps, _cache, result, raised, yielded, how, log>>
             [] d.tag = "raise" /\ op = "chat" ->
                  /\ ChatEnd(d.v)
                  /\ UNCHANGED <<now, sleeps>>
             [] d.tag = "raise" /\ op = "chat_stream" ->
                  /\ StreamExcept(d.v, posts + 1)
                  /\ UNCHANGED <<now, sleeps, _cache, result, lines, accumulated>>

(***************************************************************************)
(* The body of chat_stream's loop (lines 163-182)                          *)
(***************************************************************************)
\* truthiness of a parsed JSON value (line 177)
Truthy(v) ==
  CASE v.ty = "str" -> v.s # ""
    [] v.ty = "arr" -> Len(v.a) > 0
    [] v.ty = "obj" -> DOMAIN v.o # {}
    [] OTHER -> FALSE

Step(tag, delta) == [tag |-> tag, delta |-> delta]

\* the loop body for one line, with the step taken at [DONE] and the step taken
\* when parsing or the delta lookup raises as parameters
LineBody(line, atDone, atRaise) ==
  IF line = "" THEN Step("skip", "")
  ELSE IF ~startswith(line, "data: ") THEN Step("skip", "")
  ELSE LET data_str == strip(SubSeq(line, Len("data: ") + 1, Len(line)))
       IN IF data_str = "[DONE]" THEN Step(atDone, "")
          ELSE LET chunk == json_loads(data_str)
                   delta == DictGet(DictGet(GetFirst(DictGet(chunk, "choices",
                                                             JArr(<<JObj(<<>>)>>))),
                                            "delta", JObj(<<>>)),
                                    "content", JStr(""))
               IN IF IsRaise(delta) THEN Step(atRaise, "")
                  ELSE IF ~Truthy(delta) THEN Step("skip", "")
                  ELSE IF delta.ty # "str" THEN Step(atRaise, "")
                  ELSE Step("yield", delta.s)

\* variant: [DONE] is ignored like any other unusable line
LineStepDoneIgnored(line) == LineBody(line, "skip", "skip")
\* variant: a line that cannot be parsed ends the loop
LineStepRaiseEnds(line) == LineBody(line, "break", "break")
\* what one line does: "break" (line 169), "yield" its delta (lines 178-179),
\* or "skip" (lines 165, 166, 177 and the except at 180-182)
LineStep(line) == LineBody(line, "break", "skip")

\* variant: the bare delta is produced
ElementDelta(acc, delta) == delta
\* accumulated += delta (line 178)
Accumulate(acc, delta) == acc \o delta
\* the element produced at line 179, given the updated accumulator and the delta
Element(acc, delta) == acc

ReadLine ==
  /\ UNCHANGED loggerVars
  /\ pc = "reading"
  /\ lines # <<>>
  /\ lines' = Tail(lines)
  /\ consumed' = Append(consumed, Head(lines))
  /\ LET s == LineStep(Head(lines))
     IN CASE s.tag = "break" ->
               /\ StreamEnd("done")
               /\ UNCHANGED <<accumulated, yielded>>
          [] s.tag = "yield" ->
               /\ accumulated' = Accumulate(accumulated, s.delta)
               /\ yielded' = Append(yielded, Element(Accumulate(accumulated, s.delta), s.delta))
               /\ UNCHANGED <<pc, how, log>>
          [] s.tag = "skip" ->
               UNCHANGED <<accumulated, yielded, pc, how, log>>
  /\ UNCHANGED <<now, _last_call, _cache, op, payload, key, attempt, result, raised,
                 posts, sleeps, fails, last, ncalls>>

\* iter_lines is exhausted: the generator returns
ReadEnd ==
  /\ UNCHANGED loggerVars
  /\ pc = "reading"
  /\ lines = <<>>
  /\ StreamEnd("end")
  /\ UNCHANGED <<now, _last_call, _cache, op, payload, key, attempt, result, raised,
                 lines, accumulated, yielded, posts, sleeps, fails, last, consumed, ncalls>>

\* iter_lines raises while the body is being read
ReadFail ==
  /\ UNCHANGED loggerVars
  /\ pc = "reading"
  /\ StreamExcept(PyExc("ChunkedEncodingError", "Connection broken"), posts)
  /\ UNCHANGED <<now, _last_call, _cache, op, payload, key, attempt, result,
                 lines, accumulated, posts, sleeps, fails, last, consumed, ncalls>>

(***************************************************************************)
(* src/utils/logger.py: the history file                                   *)
(***************************************************************************)
\* a file whose content json.load rejects; an empty file is one
TextFile == [kind |-> "text", data |-> <<>>]
\* a file holding the JSON list data
JsonFile(data) == [kind |-> "json", data |-> data]

\* variant: the history read from the file is dropped
load_history_dropped(f) == <<>>
\* json.load(f) under try / except (FileNotFoundError, JSONDecodeError): []
load_history(f) == IF f.kind = "json" THEN f.data ELSE <<>>

\* strftime("%Y-%m-%d %H:%M:%S") keeps the whole seconds of the clock
HistoryEntry(q, a) == [timestamp |-> now \div 1000, question |-> q, answer |-> a]

\* log_interaction lines 8-19: read the history, append the entry to the local list
LogRead(h, q, a) ==
  /\ handlers[h].pc = "idle"
  /\ handlers' = [handlers EXCEPT ![h] =
       [pc |-> "open", history |-> Append(load_history(logfile), HistoryEntry(q, a)),
        question |-> q, answer |-> a]]
  /\ lastop' = "log_interaction"
  /\ UNCHANGED <<logfile, returned, since>>
  /\ UNCHANGED clientVars

\* log_interaction line 21: open(LOG_PATH, "w") truncates the file
LogOpen(h) ==
  /\ handlers[h].pc = "open"
  /\ logfile' = TextFile
  /\ handlers' = [handlers EXCEPT ![h].pc = "dump"]
  /\ UNCHANGED <<returned, lastop, since>>
  /\ UNCHANGED clientVars

\* log_interaction line 22: json.dump(history, f) and the end of the call
LogDump(h) ==
  /\ handlers[h].pc = "dump"
  /\ logfile' = JsonFile(handlers[h].history)
  /\ handlers' = [handlers EXCEPT ![h] = IdleHandler]
  /\ since' = [since EXCEPT !.calls =
                 Append(@, <<handlers[h].question, handlers[h].answer>>)]
  /\ UNCHANGED <<returned, lastop>>
  /\ UNCHANGED clientVars

\* get_history lines 24-29
GetHistory ==
  /\ returned' = load_history(logfile)
  /\ lastop' = "get_history"
  /\ UNCHANGED <<logfile, handlers, since>>
  /\ UNCHANGED clientVars

\* clear_history lines 32-36
ClearHistory ==
  /\ logfile' = JsonFile(<<>>)
  /\ lastop' = "clear_history"
  /\ since' = [cleared |-> TRUE, calls |-> <<>>]
  /\ UNCHANGED <<handlers, returned>>
  /\ UNCHANGED clientVars

(***************************************************************************)
(* Inputs                                                                  *)
(***************************************************************************)
Args(prompt, system, max_tokens) ==
  [prompt |-> prompt, model |-> "llama-3.1-8b-instant", temperature |-> 700,
   max_tokens |-> max_tokens, top_p |-> 1000, system |-> system]

ArgSet == {Args("Hi", "", 512), Args("Yo", "Be brief.", 16)}

Statuses == {400, 401, 404, 429, 500, 502, 503, 504}
Outcomes ==
  {Raises(e) : e \in {"Timeout", "ConnectionError", "TooManyRedirects"}}
    \cup {Outcome("", 200, b) : b \in {BodyHello, BodyBye, BodyNoChoices, BodyEmptyChoices,
                                       BodyNullContent, BodyHtml}}
    \cup {Outcome("", s, BodyError) : s \in Statuses}
    \cup {Outcome("", 502, BodyHtml)}

LineHel == "data: " \o ChunkHel
LineLo == "data: " \o ChunkLo
LineDone == "data: [DONE]"
LineTruncated == "data: " \o ChunkTruncated
SampleStreams == {<<>>, <<LineHel, LineLo, LineDone>>, <<LineHel, LineTruncated, LineLo>>}

(***************************************************************************)
(* Spec: chat and chat_stream calls, one after the other, on one client    *)
(***************************************************************************)
Next ==
  \/ ncalls < MaxCalls /\ \E a \in ArgSet : ChatCall(a)
  \/ ncalls < MaxCalls /\ \E a \in ArgSet : StreamCall(a)
  \/ pc = "post" /\ \E o \in Outcomes, ls \in SampleStreams : PostAttempt(o, ls)
  \/ ReadLine
  \/ ReadEnd
  \/ ReadFail

Spec == Init /\ [][Next]_vars

(***************************************************************************)
(* SpecStream: chat_stream calls over every stream of at most MaxLines     *)
(* lines drawn from LineSet                                                *)
(***************************************************************************)
LineBlank == ""
LineComment == ": keep-alive"
LineDonePadded == "data:  [DONE] "
LineRole == "data: " \o ChunkRole
LineEmptyContent == "data: " \o ChunkEmptyContent
LineEmptyChoices == "data: " \o BodyEmptyChoices
LineSet ==
  {LineBlank, LineComment, LineHel, LineLo, LineDone, LineDonePadded, LineTruncated,
   LineRole, LineEmptyContent, LineEmptyChoices}
Streams == UNION {[1..n -> LineSet] : n \in 0..MaxLines}
StreamOutcomes == {Raises("ConnectionError"), Raises("TooManyRedirects"), Outcome("", 200, "")}

NextStream ==
  \/ ncalls < MaxStreamCalls /\ StreamCall(Args("Hi", "", 16))
  \/ pc = "post" /\ \E o \in StreamOutcomes, ls \in Streams : PostAttempt(o, ls)
  \/ ReadLine
  \/ ReadEnd
  \/ ReadFail

SpecStream == Init /\ [][NextStream]_vars

(***************************************************************************)
(* SpecCache: successful chat calls that fill the cache past its limit.    *)
(* Requests differ in max_tokens only; a new key is always the smallest    *)
(* max_tokens not used yet, and the request with max_tokens = 1 may be     *)
(* repeated MaxHits times.                                                 *)
(***************************************************************************)
MaxCacheCalls == 66
Fresh == 1 + Cardinality({log[i].key : i \in 1..Len(log)})
Repeats == Len(log) - Cardinality({log[i].key : i \in 1..Len(log)})

NextCache ==
  \/ ncalls < MaxCacheCalls /\ ChatCall(Args("Hi", "", Fresh))
  \/ ncalls < MaxCacheCalls /\ Fresh > 1 /\ Repeats < MaxHits /\ ChatCall(Args("Hi", "", 1))
  \/ pc = "post" /\ PostAttempt(Outcome("", 200, BodyHello), <<>>)

SpecCache == Init /\ [][NextCache]_vars

\* chat calls that differ in temperature, top_p and max_tokens only
MaxKeyCalls == 2
Temperatures == {700, 704, 705, 706, 715, 720}
TopPs == {1000, 999, 995}
MaxTokens == {16, 0, -5}
ArgsAt(temperature, top_p, max_tokens) ==
  [Args("Hi", "", max_tokens) EXCEPT !.temperature = temperature, !.top_p = top_p]
KeyOutcomes == {Outcome("", 200, BodyHello), Outcome("", 400, BodyError)}
NextKey ==
  \/ ncalls < MaxKeyCalls
       /\ \E t \in Temperatures, p \in TopPs, m \in MaxTokens : ChatCall(ArgsAt(t, p, m))
  \/ pc = "post" /\ \E o \in KeyOutcomes : PostAttempt(o, <<>>)
SpecKey == Init /\ [][NextKey]_vars

\* the logger used by one handler at a time
MaxLogCalls == 3
Questions == {"Q1", "Q2"}
Answers == {"A1", "A2"}
\* what logs/history.json may be when the program starts
InitialFiles ==
  {NoFile, TextFile, JsonFile(<<>>),
   JsonFile(<<[timestamp |-> 0, question |-> "Q0", answer |-> "A0"]>>)}
AllIdle == \A h \in Handlers : handlers[h].pc = "idle"
InitLogger ==
  /\ now = StartTime /\ _last_call = 0 /\ _cache = <<>> /\ pc = "idle" /\ op = ""
  /\ payload = NoPayload /\ key = NoKey /\ attempt = 0 /\ result = ""
  /\ raised = FALSE /\ lines = <<>> /\ accumulated = "" /\ yielded = <<>>
  /\ how = "" /\ posts = 0 /\ sleeps = <<>> /\ fails = 0 /\ last = NoOutcome
  /\ consumed = <<>> /\ log = <<>> /\ ncalls = 0
  /\ logfile \in InitialFiles
  /\ handlers = [h \in Handlers |-> IdleHandler]
  /\ returned = <<>>
  /\ lastop = ""
  /\ since = [cleared |-> FALSE, calls |-> <<>>]
NextLogger ==
  \/ AllIdle /\ Len(since.calls) < MaxLogCalls
       /\ \E h \in Handlers, q \in Questions, a \in Answers : LogRead(h, q, a)
  \/ \E h \in Handlers : LogOpen(h)
  \/ \E h \in Handlers : LogDump(h)
  \/ AllIdle /\ GetHistory
  \/ AllIdle /\ ClearHistory
SpecLogger == InitLogger /\ [][NextLogger]_vars

\* the logger used by the UI handlers at the same time: the steps of their
\* log_interaction calls interleave; the history is cleared and read when no
\* call is under way
MaxConcurrentCalls == 2
InFlight == {h \in Handlers : handlers[h].pc # "idle"}
NextLoggerConcurrent ==
  \/ Len(since.calls) + Cardinality(InFlight) < MaxConcurrentCalls
       /\ \E h \in Handlers, q \in Questions, a \in Answers : LogRead(h, q, a)
  \/ \E h \in Handlers : LogOpen(h)
  \/ \E h \in Handlers : LogDump(h)
  \/ AllIdle /\ GetHistory
  \/ AllIdle /\ ClearHistory
SpecLoggerConcurrent == InitLogger /\ [][NextLoggerConcurrent]_vars

\* chat and chat_stream calls with and without a system string and with
\* max_tokens above, at and below 1
MaxPayloadCalls == 2
PayloadArgs ==
  {Args("Hi", sy, m) : sy \in {"", "Be brief."}, m \in {16, 0, -5}}
PayloadOutcomes ==
  {Outcome("", 200, BodyHello), Outcome("", 503, BodyError), Raises("Timeout")}
PayloadStreams == {<<>>, <<LineHel, LineLo, LineDone>>}
NextPayload ==
  \/ ncalls < MaxPayloadCalls /\ \E a \in PayloadArgs : ChatCall(a)
  \/ ncalls < MaxPayloadCalls /\ \E a \in PayloadArgs : StreamCall(a)
  \/ pc = "post" /\ \E o \in PayloadOutcomes, ls \in PayloadStreams : PostAttempt(o, ls)
  \/ ReadLine
  \/ ReadEnd
SpecPayload == Init /\ [][NextPayload]_vars

(***************************************************************************)
(* Properties of chat, checked under Spec                                  *)
(***************************************************************************)
Contains(s, sub) == \E i \in 1..(Len(s) - Len(sub) + 1) : SubSeq(s, i, i + Len(sub) - 1) = sub
ErrorPrefix == "Error communicating with Groq API: "
ChatDone == op = "chat" /\ pc = "idle"
ChatMissDone == ChatDone /\ how # "hit"
WellFormed200(o) == o.exc = "" /\ o.status_code = 200 /\ o.text \in {BodyHello, BodyBye}
ContentOf(o) == IF o.text = BodyHello THEN "Hello world" ELSE "Bye"

\* C1: whatever the transport did (success, timeout, connection failure, any HTTP
\* error status, malformed or wrongly shaped body), a chat call ends by returning
\* a string; no exception escapes, and a call inside _post has attempts left to
\* make only while it made at most max_retries of them.
C1_ChatReturnsString ==
  /\ op = "chat" => ~raised
  /\ op = "chat" /\ pc = "post" => posts <= max_retries
  /\ ChatDone => /\ how \in {"hit", "ok", "error"}
                 /\ result \in STRING
                 /\ how = "error" => startswith(result, ErrorPrefix)
                 /\ how = "error" <=> (posts > 0 /\ ~WellFormed200(last))
C1_Witness ==
  /\ ChatDone
  /\ how = "error"
  /\ last = Outcome("", 200, BodyNullContent)
  /\ Contains(result, "object has no attribute 'strip'")

SameRequest(i, j) ==
  /\ i < j
  /\ log[i].op = "chat"
  /\ log[j].op = "chat"
  /\ log[i].key = log[j].key
  /\ log[i].how = "ok"
\* no entry has been evicted while at most _cache_limit calls were completed
NothingEvicted == Len(log) <= _cache_limit

\* C2 as stated: two chat calls with identical arguments, the first successful and
\* its entry not evicted, issue exactly one POST in total and return the same string.
C2_OnePostInTotal ==
  NothingEvicted =>
    \A i, j \in 1..Len(log) :
      SameRequest(i, j) =>
        /\ log[i].posts + log[j].posts = 1
        /\ log[j].text = log[i].text

\* C2 amended: the second call issues no POST and returns the string the first
\* returned; the POSTs issued in total are the attempts of the first call, at
\* least one and at most max_retries + 1.
C2_SecondCallIssuesNoPost ==
  NothingEvicted =>
    \A i, j \in 1..Len(log) :
      SameRequest(i, j) =>
        /\ log[j].how = "hit"
        /\ log[j].posts = 0
        /\ log[j].text = log[i].text
        /\ log[i].posts \in 1..(max_retries + 1)
        /\ j = Len(log) /\ pc = "idle" => result = log[i].text /\ posts = 0
C2_Witness ==
  /\ Len(log) = 2
  /\ SameRequest(1, 2)
  /\ log[1].posts = 3
  /\ ChatDone
  /\ result = "Hello world"

\* C4: when the first n attempts of a chat call (0 <= n <= 3) fail transiently and
\* attempt n+1 returns a well-formed 200 response, chat returns the success text
\* after exactly n+1 attempts; in particular the call does not end on a transient
\* failure while n <= 3 attempts were made.
C4_RetryThenSuccess ==
  /\ ChatMissDone /\ WellFormed200(last) /\ fails = posts - 1 =>
       /\ how = "ok"
       /\ result = ContentOf(last)
       /\ posts \in 1..(max_retries + 1)
       /\ Len(sleeps) = posts - 1
  /\ op = "chat" /\ posts > 0 /\ posts <= max_retries /\ fails = posts /\ SpecTransient(last) =>
       pc = "post"
C4_Witness ==
  /\ ChatMissDone
  /\ last = Outcome("", 200, BodyHello)
  /\ fails = 2
  /\ posts = 3
  /\ result = "Hello world"
C4_WitnessThreeFailures ==
  /\ ChatMissDone
  /\ WellFormed200(last)
  /\ fails = 3
  /\ posts = 4
  /\ how = "ok"

PermanentStatus(o) ==
  o.exc = "" /\ o.status_code >= 400 /\ o.status_code \notin {429, 500, 502, 503, 504}

\* C5: a chat call whose first response has an HTTP error status outside
\* {429, 500, 502, 503, 504} ends after that one attempt, without a retry or a
\* backoff sleep, and returns a string that contains the status code and, for
\* 400, the model/max_tokens hint.
C5_PermanentFailure ==
  op = "chat" /\ posts = 1 /\ PermanentStatus(last) =>
    /\ pc = "idle"
    /\ how = "error"
    /\ sleeps = <<>>
    /\ now = _last_call
    /\ Contains(result, ToString(last.status_code))
    /\ last.status_code = 400 => Contains(result, "Check the model name and ensure max_tokens > 0")
C5_Witness ==
  /\ ChatDone
  /\ posts = 1
  /\ last = Outcome("", 400, BodyError)
  /\ Contains(result, "400 Bad Request")

\* C6: no chat or chat_stream call makes more than 4 POST attempts; when every
\* attempt fails transiently exactly 4 are made, the last failure leaves _post,
\* and chat returns the formatted error string.
C6_AtMostFourAttempts ==
  /\ posts <= max_retries + 1
  /\ posts <= 4
  /\ Len(sleeps) <= 3
  /\ ChatMissDone /\ fails = posts =>
       /\ posts = 4
       /\ how = "error"
       /\ result = _format_error(session_post(last, FALSE))
       /\ startswith(result, ErrorPrefix)
  /\ op = "chat_stream" /\ pc = "idle" /\ last.exc \in {"Timeout", "ConnectionError"} =>
       /\ posts = 4
       /\ how = "error"
C6_Witness ==
  /\ ChatMissDone
  /\ fails = 4
  /\ posts = 4
  /\ sleeps = <<1500, 2250, 3375>>
  /\ last = Outcome("", 503, BodyError)
  /\ Contains(result, "it was retried automatically")

(***************************************************************************)
(* Properties of chat_stream, checked under SpecStream                     *)
(***************************************************************************)
RECURSIVE Concat(_)
Concat(ss) == IF Len(ss) = 0 THEN "" ELSE Head(ss) \o Concat(Tail(ss))
\* the running concatenations d1, d1+d2, ..., d1+...+dn
Prefixes(ds) == [k \in 1..Len(ds) |-> Concat(SubSeq(ds, 1, k))]
ProperPrefix(s, t) == Len(s) < Len(t) /\ SubSeq(t, 1, Len(s)) = s

\* the stream protocol of section 6: the delta a line carries ("" if none)
SpecDelta(line) ==
  IF line = LineHel THEN "Hel" ELSE IF line = LineLo THEN "lo" ELSE ""
SpecDone(line) == line \in {LineDone, LineDonePadded}
\* data lines that cannot be parsed or lack choices[0].delta.content
SpecMalformed(line) ==
  line \in {LineTruncated, LineEmptyChoices, LineRole, LineEmptyContent}
BeforeDone(ls) ==
  LET idx == {i \in 1..Len(ls) : SpecDone(ls[i])}
  IN IF idx = {} THEN ls
     ELSE SubSeq(ls, 1, (CHOOSE i \in idx : \A j \in idx : i <= j) - 1)
DeltasOf(ls) == SelectSeq([i \in 1..Len(ls) |-> SpecDelta(ls[i])], LAMBDA d : d # "")
Streaming == op = "chat_stream" /\ pc \in {"reading", "idle"} /\ (pc = "idle" => how # "")
\* the elements produced by reading, without the final error element if there is one
Accumulations == IF how = "error" THEN SubSeq(yielded, 1, Len(yielded) - 1) ELSE yielded

\* C7: when the lines read so far carry the non-empty deltas d1..dn, chat_stream
\* has produced exactly n elements, the k-th being d1+...+dk: each element is a
\* proper prefix of the next and the last is the whole text.
C7_YieldsAccumulations ==
  Streaming /\ how # "error" =>
    LET ds == DeltasOf(consumed)
    IN /\ Len(yielded) = Len(ds)
       /\ \A k \in 1..Len(ds) : yielded[k] = Concat(SubSeq(ds, 1, k))
       /\ \A k \in 1..(Len(yielded) - 1) : ProperPrefix(yielded[k], yielded[k + 1])
       /\ accumulated = Concat(ds)
       /\ yielded # <<>> => yielded[Len(yielded)] = Concat(ds)
C7_Witness ==
  /\ op = "chat_stream"
  /\ how = "done"
  /\ consumed = <<LineHel, LineLo, LineDone>>
  /\ yielded = <<"Hel", "Hello">>

\* C8: once a line whose text after "data: " is [DONE] was read, the sequence has
\* ended: that line is the last one read, and the lines that follow it in the
\* response, usable or not, are left unread and produce nothing.
C8_DoneEndsSequence ==
  op = "chat_stream" /\ (\E i \in 1..Len(consumed) : SpecDone(consumed[i])) =>
    /\ pc = "idle"
    /\ how = "done"
    /\ SpecDone(consumed[Len(consumed)])
    /\ \A i \in 1..(Len(consumed) - 1) : ~SpecDone(consumed[i])
    /\ yielded = Prefixes(DeltasOf(BeforeDone(consumed \o lines)))
C8_Witness ==
  /\ op = "chat_stream"
  /\ how = "done"
  /\ consumed = <<LineHel, LineDone>>
  /\ lines = <<LineLo>>
  /\ yielded = <<"Hel">>

WithoutMalformed(ls) == SelectSeq(ls, LAMBDA l : ~SpecMalformed(l))

\* C9: a data line that cannot be parsed or lacks choices[0].delta.content
\* produces no element, does not end the sequence and leaves the accumulator
\* as it was: what has been produced is what the stream without such lines
\* produces.
C9_MalformedLineSkipped ==
  /\ Streaming /\ how # "error" =>
       /\ yielded = Prefixes(DeltasOf(WithoutMalformed(consumed)))
       /\ accumulated = Concat(DeltasOf(WithoutMalformed(consumed)))
  /\ op = "chat_stream" /\ consumed # <<>> /\ SpecMalformed(consumed[Len(consumed)]) =>
       \/ pc = "reading"
       \/ how = "end" /\ lines = <<>>
       \/ how = "error"
C9_Witness ==
  /\ op = "chat_stream"
  /\ pc = "reading"
  /\ consumed = <<LineHel, LineTruncated, LineLo>>
  /\ yielded = <<"Hel", "Hello">>
C9_WitnessNoChoices ==
  /\ op = "chat_stream"
  /\ how = "end"
  /\ consumed = <<LineEmptyChoices, LineHel, LineRole>>
  /\ yielded = <<"Hel">>

\* C10: when establishing the stream or reading it fails with an exception,
\* chat_stream produces exactly one more element, the formatted error string,
\* after the accumulations it had produced, and ends; no exception reaches the
\* consumer.
C10_ErrorIsLastElement ==
  /\ op = "chat_stream" => ~raised
  /\ op = "chat_stream" /\ posts > 0 /\ pc = "idle" /\ last.exc # "" => how = "error"
  /\ op = "chat_stream" /\ how = "error" =>
       /\ pc = "idle"
       /\ Len(yielded) = Len(DeltasOf(consumed)) + 1
       /\ startswith(yielded[Len(yielded)], ErrorPrefix)
       /\ Accumulations = Prefixes(DeltasOf(consumed))
       /\ \A k \in 1..(Len(yielded) - 1) : ~startswith(yielded[k], ErrorPrefix)
C10_Witness ==
  /\ op = "chat_stream"
  /\ how = "error"
  /\ consumed = <<LineHel, LineLo>>
  /\ lines # <<>>
  /\ Len(yielded) = 3
  /\ yielded[2] = "Hello"
  /\ Contains(yielded[3], "Connection broken")
C10_WitnessEstablish ==
  /\ op = "chat_stream"
  /\ how = "error"
  /\ posts = 4
  /\ consumed = <<>>
  /\ Len(yielded) = 1
  /\ Contains(yielded[1], "Connection refused")

(***************************************************************************)
(* Properties of the cache, checked under SpecCache                        *)
(***************************************************************************)
\* the first n completed calls were successful chat calls with pairwise
\* distinct keys, none of them a cache hit
DistinctInsertions(n) ==
  /\ Len(log) >= n
  /\ \A i \in 1..n : log[i].op = "chat" /\ log[i].how = "ok"
  /\ \A i, j \in 1..n : i # j => log[i].key # log[j].key

\* C3: the cache never holds more than 64 entries; after 65 successful chat
\* calls with pairwise distinct keys and no hit it holds exactly 64 entries,
\* the first inserted key is the absent one and the 64 later keys are present
\* in insertion order.
C3_CacheBounded ==
  /\ Len(_cache) <= 64
  /\ Len(_cache) <= _cache_limit
  /\ \A i, j \in 1..Len(_cache) : i # j => _cache[i].key # _cache[j].key
  /\ Len(log) = 65 /\ DistinctInsertions(65) =>
       /\ Len(_cache) = 64
       /\ log[1].key \notin CacheKeys(_cache)
       /\ \A i \in 1..64 : _cache[i].key = log[i + 1].key
C3_Witness ==
  /\ Len(log) = 65
  /\ DistinctInsertions(65)
  /\ pc = "idle"
  /\ Len(_cache) = 64
  /\ _cache[64].key.max_tokens = 65

(***************************************************************************)
(* Streaming and the cache, checked under Spec                             *)
(***************************************************************************)
StreamStep == op' = "chat_stream"
\* every cached key was put there by a successful chat call
CachedByChat ==
  \A e \in 1..Len(_cache) :
    \E i \in 1..Len(log) :
      log[i].op = "chat" /\ log[i].how = "ok" /\ log[i].key = _cache[e].key

\* C11: chat_stream neither reads nor writes the cache: no step of a streaming
\* call changes the cache contents or their order, every streaming call issues
\* at least one POST, also when the same request is cached, and a chat call is a
\* hit only if an earlier chat call with the same key succeeded.
C11_StreamBypassesCache ==
  /\ [][StreamStep => _cache' = _cache]_vars
  /\ [](\A i \in 1..Len(log) : log[i].op = "chat_stream" => log[i].posts >= 1)
  /\ [](op = "chat_stream" /\ pc # "post" => posts >= 1)
  /\ []CachedByChat
  /\ [](\A j \in 1..Len(log) :
          log[j].how = "hit" =>
            \E i \in 1..(j - 1) :
              log[i].op = "chat" /\ log[i].how = "ok" /\ log[i].key = log[j].key)
C11_Witness ==
  /\ Len(log) = 2
  /\ log[1].op = "chat"
  /\ log[1].how = "ok"
  /\ log[1].key = CacheKey(Args("Hi", "", 512))
  /\ log[2].op = "chat_stream"
  /\ payload = StreamPayload(Args("Hi", "", 512))
  /\ posts = 1
  /\ yielded = <<"Hel", "Hello">>
  /\ _cache = <<[key |-> log[1].key, val |-> log[1].text]>>

(***************************************************************************)
(* Cache hits and eviction order, checked under SpecCache                  *)
(***************************************************************************)
HitStep == op' = "chat" /\ how' = "hit" /\ ncalls' = ncalls + 1
Pos(c, k) == CHOOSE i \in 1..Len(c) : c[i].key = k
Entries(c) == {c[i] : i \in 1..Len(c)}

\* C12: a chat call that hits the cache issues no POST, does not wait for the
\* rate limiter and leaves _last_call as it was; the cached keys and values are
\* the same afterwards, the hit entry is the most recent one and the other
\* entries keep their relative order.
C12_HitTouchesOnlyRecency ==
  [][HitStep =>
       /\ pc' = "idle"
       /\ posts' = 0
       /\ sleeps' = <<>>
       /\ now' = now
       /\ _last_call' = _last_call
       /\ Entries(_cache') = Entries(_cache)
       /\ Len(_cache') = Len(_cache)
       /\ _cache'[Len(_cache')].key = key'
       /\ result' = _cache'[Len(_cache')].val
       /\ \A i \in 1..(Len(_cache) - 1) :
            _cache[i].key # key' /\ _cache[i + 1].key # key' =>
              Pos(_cache', _cache[i].key) < Pos(_cache', _cache[i + 1].key)]_vars
C12_Witness ==
  /\ ChatDone
  /\ how = "hit"
  /\ posts = 0
  /\ Len(_cache) = 64
  /\ _cache[64].key.max_tokens = 1
  /\ _cache[1].key.max_tokens = 2
  /\ _last_call = now

\* the index in log of the latest insertion or hit of key k (0 if none)
LastAccess(k) ==
  LET idx == {i \in 1..Len(log) : log[i].key = k /\ log[i].how \in {"ok", "hit"}}
  IN IF idx = {} THEN 0 ELSE CHOOSE i \in idx : \A j \in idx : j <= i
Accessed == {log[i].key : i \in {j \in 1..Len(log) : log[j].how \in {"ok", "hit"}}}

\* C13: eviction is least-recently-used over insertions and hits: the cache is
\* ordered by last access, it holds the (at most 64) most recently accessed keys,
\* and every key that is gone was last accessed before every key still cached.
C13_EvictsLeastRecentlyUsed ==
  /\ \A i \in 1..(Len(_cache) - 1) :
       LastAccess(_cache[i].key) < LastAccess(_cache[i + 1].key)
  /\ CacheKeys(_cache) \subseteq Accessed
  /\ Len(_cache) = IF Cardinality(Accessed) > 64 THEN 64 ELSE Cardinality(Accessed)
  /\ \A k \in Accessed \ CacheKeys(_cache) :
       LastAccess(k) < LastAccess(_cache[1].key)
C13_Witness ==
  /\ ChatDone
  /\ Len(log) = 66
  /\ log[65].how = "hit"
  /\ log[66].how = "ok"
  /\ Len(_cache) = 64
  /\ CacheKey(Args("Hi", "", 1)) \in CacheKeys(_cache)
  /\ CacheKey(Args("Hi", "", 2)) \notin CacheKeys(_cache)

(***************************************************************************)
(* What the cache key depends on, checked under SpecKey                    *)
(***************************************************************************)
\* a chat call starts right after a chat call that left its answer in the cache
ChatAfterCached ==
  /\ op = "chat" /\ pc = "idle" /\ how \in {"ok", "hit"}
  /\ op' = "chat" /\ ncalls' = ncalls + 1
\* the two requests agree in model, system and prompt
SameConversation == payload'.model = payload.model /\ payload'.messages = payload.messages
SameRounded ==
  /\ round2(payload'.temperature) = round2(payload.temperature)
  /\ round2(payload'.top_p) = round2(payload.top_p)

\* C14: of two chat calls that differ only in temperature or top_p, the second
\* is a hit with no POST and the same answer when both values round to the same
\* 2 decimals, and the two calls have different entries when a rounded value
\* differs.
C14_KeyRoundsSampling ==
  [][ChatAfterCached /\ SameConversation /\ key'.max_tokens = key.max_tokens =>
       IF SameRounded
         THEN how' = "hit" /\ posts' = 0 /\ result' = result /\ key' = key
                /\ Entries(_cache') = Entries(_cache)
         ELSE key' # key /\ (how' = "hit" => Len(_cache) > 1)
                /\ (Len(_cache) = 1 => pc' = "post")]_vars
\* 0.7 then 0.704, one entry
C14_Witness ==
  /\ ChatDone /\ how = "hit" /\ posts = 0
  /\ payload.temperature = 704 /\ payload.top_p = 999
  /\ key.temperature = 700 /\ key.top_p = 1000
  /\ Len(log) = 2 /\ log[1].how = "ok" /\ log[1].key = key
  /\ Len(_cache) = 1
\* 0.715 is stored under 0.71 and 0.72 under 0.72: two entries
C14_WitnessTie ==
  /\ ChatDone /\ how = "ok" /\ posts = 1
  /\ payload.temperature = 715 /\ key.temperature = 710
  /\ Len(log) = 2 /\ log[1].how = "ok" /\ log[1].key = [key EXCEPT !.temperature = 720]
  /\ Len(_cache) = 2

\* C16 as stated: a chat call whose payload equals the payload of the call
\* before it, the two differing only in max_tokens values that clamp to 1, is a
\* hit and issues no POST.
C16_ClampedRequestsShareEntry ==
  [][ChatAfterCached /\ payload' = payload
       /\ key.max_tokens <= 1 /\ key'.max_tokens <= 1 =>
         how' = "hit" /\ posts' = 0 /\ pc' = "idle"]_vars
\* what the code does: max_tokens 0 and then -5 send the same payload twice
C16_SamePayloadTwoEntries ==
  /\ ChatDone /\ how = "ok" /\ posts = 1
  /\ Len(log) = 2 /\ log[1].how = "ok" /\ log[1].posts = 1
  /\ log[1].key.max_tokens = 0 /\ key.max_tokens = -5
  /\ payload.max_tokens = 1
  /\ log[1].key = [key EXCEPT !.max_tokens = 0]
  /\ Len(_cache) = 2

(***************************************************************************)
(* The history file, checked under SpecLogger                              *)
(***************************************************************************)
\* the (question, answer) pairs of a history, in order
Pairs(history) == [i \in 1..Len(history) |-> <<history[i].question, history[i].answer>>]

\* C15: after clear_history, get_history returns one entry per sequential
\* log_interaction call, in call order and with that call's question and
\* answer; right after clear_history it returns the empty list.
C15_HistoryInCallOrder ==
  /\ since.cleared /\ AllIdle =>
       logfile.kind = "json" /\ Pairs(logfile.data) = since.calls
  /\ since.cleared /\ lastop = "get_history" =>
       Len(returned) = Len(since.calls) /\ Pairs(returned) = since.calls
  /\ lastop = "clear_history" => logfile = JsonFile(<<>>) /\ since.calls = <<>>
C15_Witness ==
  /\ since.cleared
  /\ lastop = "get_history"
  /\ since.calls = <<<<"Q1", "A1">>, <<"Q2", "A2">>, <<"Q1", "A2">>>>
  /\ Len(returned) = 3
  /\ returned[1].question = "Q1" /\ returned[2].answer = "A2"
C15_WitnessCleared ==
  /\ lastop = "get_history" /\ since.cleared /\ since.calls = <<>> /\ returned = <<>>

(***************************************************************************)
(* Retries of a streaming call, checked under Spec                         *)
(***************************************************************************)
StreamAttempted == op = "chat_stream" /\ posts >= 1
\* nothing of the response has been read or produced
NothingRead == lines = <<>> /\ consumed = <<>> /\ yielded = <<>> /\ accumulated = ""
NoRetryWhileReading ==
  [][pc = "reading" => posts' = posts /\ sleeps' = sleeps /\ pc' # "post"]_vars

\* C17 as stated: a streaming call retries the initial attempt after a timeout,
\* a connection failure or a response with status 429, 500, 502, 503 or 504, up
\* to 3 times and before any line is read, and never retries while reading.
C17_StreamRetriesTransientStatuses ==
  /\ [](StreamAttempted /\ posts <= max_retries /\ SpecTransient(last) =>
          pc = "post" /\ Len(sleeps) = posts /\ NothingRead)
  /\ [](StreamAttempted => posts <= max_retries + 1)
  /\ NoRetryWhileReading

\* C17 amended: a streaming call retries the initial attempt, up to 3 times with
\* backoff and before any line is read, after a timeout or a connection failure
\* only; a response is returned to the reader whatever its status, 429, 500,
\* 502, 503 and 504 included, and nothing is retried while lines are read.
C17_StreamRetriesTransportFailures ==
  /\ [](StreamAttempted /\ posts <= max_retries /\ last.exc \in {"Timeout", "ConnectionError"} =>
          /\ pc = "post" /\ NothingRead
          /\ sleeps = [i \in 1..posts |-> backoff(i)])
  /\ [](StreamAttempted /\ last.exc = "" =>
          pc \in {"reading", "idle"} /\ Len(sleeps) = posts - 1)
  /\ [](StreamAttempted => posts <= max_retries + 1)
  /\ NoRetryWhileReading
\* three timeouts, then a stream that is read to [DONE]
C17_Witness ==
  /\ op = "chat_stream" /\ pc = "idle" /\ how = "done"
  /\ posts = 4 /\ fails = 3
  /\ sleeps = <<backoff(1), backoff(2), backoff(3)>>
  /\ yielded = <<"Hel", "Hello">>
\* a 503 response is handed to the reader by the first attempt
C17_WitnessStatusNotRetried ==
  /\ op = "chat_stream" /\ pc = "reading"
  /\ posts = 1 /\ last.status_code = 503 /\ sleeps = <<>>

(***************************************************************************)
(* Spacing of POST attempts, checked under Spec                            *)
(***************************************************************************)
\* a POST attempt is sent in every state with pc = "post", at time now; when a
\* call that sent a POST has ended, now is still the time of its last attempt
FirstAttemptOfLaterCall == pc = "idle" /\ posts >= 1 /\ pc' = "post"
RetryOfSameCall == pc = "post" /\ pc' = "post"

\* C18 as stated: every POST attempt is sent at least _min_interval after the
\* previous POST attempt, a retry as well as the first attempt of a later call,
\* and _last_call is the time of every attempt that is sent.
C18_EveryAttemptSpaced ==
  /\ [][FirstAttemptOfLaterCall \/ RetryOfSameCall => now' - now >= _min_interval]_vars
  /\ [](pc = "post" => _last_call = now)
\* what the code does: chat answered 503 then 200, then a second call at once
C18_SecondCallNotSpaced ==
  /\ pc = "post" /\ ncalls = 2 /\ posts = 0
  /\ Len(log) = 1 /\ log[1].how = "ok" /\ log[1].posts = 2
  /\ now = StartTime + backoff(1)
  /\ _last_call = now
\* the retry of the first call is sent with _last_call still at the first attempt
C18_RetryLeavesLastCall ==
  /\ pc = "post" /\ ncalls = 1 /\ posts = 1 /\ last.status_code = 503
  /\ now = StartTime + backoff(1)
  /\ _last_call = StartTime

(***************************************************************************)
(* Malformed answers and failures, checked under Spec                      *)
(***************************************************************************)
Malformed200(o) ==
  /\ o.exc = "" /\ o.status_code = 200
  /\ o.text \in {BodyHtml, BodyNoChoices, BodyEmptyChoices, BodyNullContent}
ChatGotMalformed == op = "chat" /\ how # "hit" /\ Malformed200(last)

\* C19 as stated: a chat call that receives a 200 response with a malformed body
\* makes exactly one POST attempt, returns the formatted error string and
\* performs no backoff sleep.
C19_MalformedMeansOnePost ==
  ChatGotMalformed =>
    pc = "idle" /\ how = "error" /\ posts = 1 /\ sleeps = <<>>

\* C19 amended: a 200 response with a malformed body is never retried: it ends
\* the chat call with the formatted error string, with no POST attempt and no
\* backoff sleep after it; the attempts before it were all transient failures,
\* each followed by one backoff sleep, so the call makes exactly one POST
\* attempt and no sleep when the malformed response answers its first attempt.
C19_MalformedNeverRetried ==
  ChatGotMalformed =>
    /\ pc = "idle" /\ how = "error" /\ ~raised
    /\ startswith(result, ErrorPrefix)
    /\ posts \in 1..(max_retries + 1)
    /\ fails = posts - 1
    /\ sleeps = [i \in 1..(posts - 1) |-> backoff(i)]
    /\ posts = 1 => now = _last_call
    /\ log[Len(log)] = LogEntry("chat", key, "error", posts, "")
C19_Witness ==
  /\ ChatGotMalformed /\ pc = "idle" /\ how = "error"
  /\ last.text = BodyNoChoices
  /\ posts = 1 /\ sleeps = <<>> /\ now = _last_call
  /\ startswith(result, ErrorPrefix)
\* 503, backoff, then an HTML page with status 200
C19_WitnessAfterRetry ==
  /\ ChatGotMalformed /\ pc = "idle" /\ how = "error"
  /\ last.text = BodyHtml
  /\ posts = 2 /\ sleeps = <<backoff(1)>>

\* the completed chat calls before call j that used the same key
Earlier(j) == {i \in 1..(j - 1) : log[i].op = "chat" /\ log[i].key = log[j].key}

\* C20: a chat call that fails leaves the cache as it was from its start to its
\* end, no cache value is a formatted error string, and a chat call whose
\* identical predecessors all failed is not a hit and issues a POST.
C20_OnlySuccessesCached ==
  /\ [][op' = "chat" /\ how' \notin {"ok", "hit"} => _cache' = _cache]_vars
  /\ [](\A e \in 1..Len(_cache) : ~startswith(_cache[e].val, ErrorPrefix))
  /\ [](\A j \in 1..Len(log) :
          log[j].op = "chat" /\ (\A i \in Earlier(j) : log[i].how = "error") =>
            log[j].how # "hit" /\ log[j].posts >= 1)
  /\ [](ChatDone /\ how = "error" => startswith(result, ErrorPrefix)
          /\ \A e \in 1..Len(_cache) : _cache[e].val # result)
\* a failed call, then the identical call answered: one POST, one entry
C20_Witness ==
  /\ ChatDone /\ how = "ok" /\ posts = 1
  /\ Len(log) = 2 /\ log[1].how = "error" /\ log[1].key = key /\ log[1].posts = 1
  /\ _cache = <<[key |-> key, val |-> "Hello world"]>>
\* a failure with an entry already cached
C20_WitnessCacheKept ==
  /\ ChatDone /\ how = "error"
  /\ Len(log) = 2 /\ log[1].how = "ok" /\ log[1].key # key
  /\ _cache = <<[key |-> log[1].key, val |-> log[1].text]>>

(***************************************************************************)
(* Cache entries do not change, checked under Spec                         *)
(***************************************************************************)
\* the completed call that inserted the entry hit by call j
Inserted(j) ==
  LET ins == {i \in 1..(j - 1) : log[i].op = "chat" /\ log[i].how = "ok"
                                   /\ log[i].key = log[j].key}
  IN CHOOSE i \in ins : \A k \in ins : k <= i

\* C21: the value stored under a key is the same after every step that keeps
\* the key in the cache, whatever chat and chat_stream calls are made; an entry
\* is inserted with the stripped content of the response, and every hit returns
\* the text of the response that inserted the entry.
C21_EntryImmutable ==
  /\ [][\A i \in 1..Len(_cache) :
          _cache[i].key \in CacheKeys(_cache') =>
            CacheGet(_cache', _cache[i].key) = _cache[i].val]_vars
  /\ [](ChatDone /\ how = "ok" =>
          /\ WellFormed200(last)
          /\ result = ContentOf(last)
          /\ CacheGet(_cache, key) = ContentOf(last)
          /\ log[Len(log)].text = ContentOf(last))
  /\ [](\A j \in 1..Len(log) : log[j].how = "hit" =>
          log[j].text = log[Inserted(j)].text)
  /\ [](ChatDone /\ how = "hit" =>
          result = log[Len(log)].text /\ CacheGet(_cache, key) = result)
  /\ [](\A i, j \in 1..Len(_cache) : _cache[i].key = _cache[j].key => i = j)
\* inserted with "Bye", the identical call is a hit returning "Bye"
C21_Witness ==
  /\ ChatDone /\ how = "hit" /\ result = "Bye"
  /\ Len(log) = 2 /\ log[1].how = "ok" /\ log[1].key = key /\ log[1].text = "Bye"
  /\ _cache = <<[key |-> key, val |-> "Bye"]>>
\* a chat_stream call between insertion and a later state leaves the entry
C21_WitnessAcrossStream ==
  /\ op = "chat_stream" /\ pc = "idle" /\ yielded = <<"Hel", "Hello">>
  /\ Len(log) = 2 /\ log[1].how = "ok" /\ log[1].text = "Bye"
  /\ _cache = <<[key |-> log[1].key, val |-> "Bye"]>>

(***************************************************************************)
(* The payload that is sent, checked under SpecPayload                     *)
(***************************************************************************)
UserMessage(m, prompt) == m = [role |-> "user", content |-> prompt]
SystemMessage(m, system) == m = [role |-> "system", content |-> system]
\* the message list built from prompt and system
MessagesFor(ms, a) ==
  IF a.system # ""
    THEN Len(ms) = 2 /\ SystemMessage(ms[1], a.system) /\ UserMessage(ms[2], a.prompt)
    ELSE Len(ms) = 1 /\ UserMessage(ms[1], a.prompt)
\* the shape of a payload, whoever built it
PayloadShape(p) ==
  /\ p.max_tokens >= 1
  /\ Len(p.messages) \in {1, 2}
  /\ p.messages[Len(p.messages)].role = "user"
  /\ Len(p.messages) = 2 => p.messages[1].role = "system" /\ p.messages[1].content # ""
  /\ \A i \in 1..Len(p.messages) : DOMAIN p.messages[i] = {"role", "content"}
Streamed(p) == "stream" \in DOMAIN p /\ p.stream = TRUE

\* C22: every payload handed to session.post has max_tokens >= 1 and a message
\* list that is the user message with the prompt, preceded by the system message
\* exactly when a non-empty system string was given; the payload of chat_stream
\* carries stream = true and the payload of chat has no stream field.
C22_PayloadWellFormed ==
  /\ [](pc = "post" =>
          /\ PayloadShape(payload)
          /\ Streamed(payload) <=> op = "chat_stream"
          /\ op = "chat" => "stream" \notin DOMAIN payload)
  /\ [][\A a \in PayloadArgs : (ChatCall(a) \/ StreamCall(a)) =>
          /\ MessagesFor(payload'.messages, a)
          /\ payload'.max_tokens = (IF a.max_tokens >= 1 THEN a.max_tokens ELSE 1)
          /\ payload'.model = a.model
          /\ payload'.temperature = a.temperature
          /\ payload'.top_p = a.top_p]_vars
  /\ [][pc = "post" => payload' = payload]_vars
\* chat_stream with a system string and max_tokens = -5, sent a second time
C22_Witness ==
  /\ pc = "post" /\ op = "chat_stream" /\ posts = 1 /\ last.status_code = 0
  /\ payload.max_tokens = 1 /\ payload.stream = TRUE
  /\ payload.messages = <<[role |-> "system", content |-> "Be brief."],
                          [role |-> "user", content |-> "Hi"]>>
\* chat without a system string and max_tokens = 0
C22_WitnessChat ==
  /\ pc = "post" /\ op = "chat" /\ posts = 0
  /\ key.max_tokens = 0 /\ payload.max_tokens = 1
  /\ payload.messages = <<[role |-> "user", content |-> "Hi"]>>
  /\ DOMAIN payload = {"model", "messages", "temperature", "max_tokens", "top_p"}

(***************************************************************************)
(* Interleaved log_interaction calls, checked under SpecLoggerConcurrent   *)
(***************************************************************************)
\* how many times the pair qa occurs in a sequence of pairs
Count(ps, qa) == Cardinality({i \in 1..Len(ps) : ps[i] = qa})

\* C23 as stated: when get_history is called after the log_interaction calls
\* made since the last clear_history have ended, however their read and write
\* steps interleaved, it returns exactly one entry per call.
C23_NoInteractionLost ==
  since.cleared /\ lastop = "get_history" =>
    /\ Len(returned) = Len(since.calls)
    /\ \A q \in Questions, a \in Answers :
         Count(Pairs(returned), <<q, a>>) = Count(since.calls, <<q, a>>)
\* what the code does: both handlers read the empty history before either
\* writes, and the file keeps only the entry of the handler that wrote last
C23_LostUpdate ==
  /\ since.cleared /\ lastop = "get_history" /\ AllIdle
  /\ since.calls = <<<<"Q1", "A1">>, <<"Q2", "A2">>>>
  /\ Pairs(returned) = <<<<"Q2", "A2">>>>
  /\ logfile = JsonFile(returned)

====
